---------------------------- MODULE Spec2Model ----------------------------
(***************************************************************************)
(* Booking lifecycle and payment confirmation of nomadliving-stays.        *)
(*                                                                         *)
(* Three request handlers share the Booking table:                         *)
(*   createBookingAction   src/utils/actions.ts 589-672                    *)
(*   POST /api/payment     src/unnamed/part_017 26-152                     *)
(*   GET  /api/confirm     src/app/api/confirm/route.ts 26-105             *)
(* plus deleteBookingAction (src/utils/actions.ts 698-724) and the payment *)
(* provider, which moves a checkout session from open to complete or       *)
(* expired.  updatePropertyAction (src/utils/actions.ts 827-866) changes   *)
(* the price the booking totals are computed from.  Every handler is an    *)
(* async function: it runs without interruption between two awaits, so     *)
(* one action of the model is one                                          *)
(* await (the storage or provider operation it waits for) followed by the  *)
(* synchronous code up to the next await or to the end of the handler.     *)
(*                                                                         *)
(* redirect() of next/navigation (Next.js 14.2, src/README.md 182) does    *)
(* not return: it throws the NEXT_REDIRECT error.  A redirect() inside a   *)
(* try block is therefore caught by that block's catch clause.             *)
(***************************************************************************)
EXTENDS Integers, FiniteSets, TLC

\* ------------------------------------------------------------------ bounds
MaxDate == 2
MaxBookings == 2
MaxSessions == 2
MaxProbeDate == 4
PriceLow == 100
PriceHigh == 150

\* Two handler invocations can be in flight at once.
Slots == {1, 2}
\* What one behaviour admits: handlers one at a time with MaxSessions checkout
\* sessions, or two handlers in flight with one session fewer.
Loads == {[slots |-> 1, sessions |-> MaxSessions],
          [slots |-> 2, sessions |-> MaxSessions - 1]}
Profiles == {"u1", "u2"}
\* "p1" is in the Property table, "p0" is an id no property has.
Properties == {"p1"}
PropertyIds == {"p1", "p0"}
Dates == 0 .. MaxDate
ProbeDates == 0 .. MaxProbeDate
BookingIds == 1 .. MaxBookings
SessionIds == 1 .. MaxSessions
\* nightly prices a Property row can hold
Prices == {PriceLow, PriceHigh}
\* the value of a missing query parameter, request field or metadata entry
NoId == 0
\* a checkout session of the provider account that POST /api/payment did not
\* create: complete, without bookingId in its metadata
ForeignSessionId == MaxSessions + 1

VARIABLES
    bookings,    \* Booking table: id -> row
    bookingSeq,  \* number of Booking rows ever inserted (ids are never reused)
    sessions,    \* the provider's checkout sessions: id -> session
    calls,       \* the handler invocations in flight, one per slot
    load,        \* the element of Loads this behaviour runs under
    probe,       \* inputs and result of the date conflict predicate
    properties   \* Property table: id -> row (the nightly price)

vars == <<bookings, bookingSeq, sessions, calls, load, probe, properties>>

\* ------------------------------------------------------------ data model
\* Property rows the handlers read (price only).
PropertyPrice(propertyId) == properties[propertyId].price

\* Fee policy of the Totals Calculator.
CleaningFee == 21
ServiceFee == 40
TaxPercent == 10

\* calculateTotals({checkIn, checkOut, price}): nights, and the order total
\* as subtotal + cleaning + service + tax.
calculateTotals(checkIn, checkOut, price) ==
    LET totalNights == checkOut - checkIn
        subTotal == totalNights * price
        tax == (subTotal * TaxPercent) \div 100
    IN  [totalNights |-> totalNights,
         orderTotal |-> subTotal + CleaningFee + ServiceFee + tax]

\* An invocation slot that runs no handler.  The fields are the handler's
\* arguments and locals (user .. price), its result (message, status,
\* redirectTo, redirectBooking) and a record of what the invocation did:
\*   created    id of the row its db.booking.create inserted
\*   hadUnpaid  the caller's unpaid rows when its cleanup ran
\*   checkedSeq the number of rows inserted so far when its conflict query ran
\*   rangeValid its checkOut argument was after its checkIn argument
\*   propertyExists  its propertyId argument named a Property row
\*   wrote      its db.booking.update changed a row
\*   sawPaid    its findUnique returned a row with paymentStatus true
IdleCall ==
    [kind |-> "none", pc |-> "idle", user |-> "none", propertyId |-> "none",
     checkIn |-> 0, checkOut |-> 0, bookingId |-> NoId, sessionId |-> NoId,
     orderTotal |-> 0, price |-> 0, message |-> "none", status |-> 0, redirectTo |-> "none",
     redirectBooking |-> NoId, created |-> NoId, hadUnpaid |-> {},
     checkedSeq |-> 0, rangeValid |-> FALSE, propertyExists |-> FALSE,
     wrote |-> FALSE, sawPaid |-> FALSE]

\* A new invocation takes the first free slot.
FreeSlot(s) ==
    /\ s <= load.slots
    /\ calls[s].pc = "idle"
    /\ \A t \in Slots : t < s => calls[t].pc # "idle"

\* The message of the NEXT_REDIRECT error redirect(url) throws.
NextRedirectMessage == "NEXT_REDIRECT"

\* new NotFoundError(resource).message
NotFoundMessage(resource) ==
    IF resource = "Property" THEN "Property not found" ELSE "Booking not found"

\* ---------------------------------------------------------------- storage
\* A deleteMany whose where clause has lost the paymentStatus condition.
DeleteManyAnyStatus(rows, profileId) ==
    [id \in {i \in DOMAIN rows : rows[i].profileId # profileId} |-> rows[id]]

\* A deleteMany whose where clause has lost the profileId condition.
DeleteManyUnpaidOfAll(rows, profileId) ==
    [id \in {i \in DOMAIN rows : rows[i].paymentStatus = TRUE} |-> rows[id]]

\* A deleteMany whose where clause selects paymentStatus: true.
DeleteManyPaid(rows, profileId) ==
    [id \in {i \in DOMAIN rows :
                ~(rows[i].profileId = profileId /\ rows[i].paymentStatus = TRUE)}
        |-> rows[id]]

\* db.booking.deleteMany({where: {profileId, paymentStatus: false}})
DeleteManyUnpaid(rows, profileId) ==
    [id \in {i \in DOMAIN rows :
                ~(rows[i].profileId = profileId /\ rows[i].paymentStatus = FALSE)}
        |-> rows[id]]

\* The rows the where clause of the cleanup selects.
UnpaidOf(rows, profileId) ==
    {i \in DOMAIN rows : rows[i].profileId = profileId /\ ~rows[i].paymentStatus}

\* The conflict query with gte in place of gt in its first clause.
DateConflictClosed(e1, e2, checkIn, checkOut) ==
    \/ (e1 <= checkIn /\ e2 >= checkIn)
    \/ (e1 < checkOut /\ e2 >= checkOut)
    \/ (e1 >= checkIn /\ e2 <= checkOut)

\* The OR of the three AND clauses of the conflict query, for one row
\* [e1, e2) against the candidate [checkIn, checkOut).
DateConflict(e1, e2, checkIn, checkOut) ==
    \/ (e1 <= checkIn /\ e2 > checkIn)
    \/ (e1 < checkOut /\ e2 >= checkOut)
    \/ (e1 >= checkIn /\ e2 <= checkOut)

\* A conflict query without the paymentStatus condition.
ConflictingBookingsAnyStatus(rows, propertyId, checkIn, checkOut) ==
    {i \in DOMAIN rows :
        /\ rows[i].propertyId = propertyId
        /\ DateConflict(rows[i].checkIn, rows[i].checkOut, checkIn, checkOut)}

\* db.booking.findFirst({where: {propertyId, paymentStatus: true, OR: [...]}}):
\* the rows the query matches (findFirst returns one of them, or null).
ConflictingBookings(rows, propertyId, checkIn, checkOut) ==
    {i \in DOMAIN rows :
        /\ rows[i].propertyId = propertyId
        /\ rows[i].paymentStatus = TRUE
        /\ DateConflict(rows[i].checkIn, rows[i].checkOut, checkIn, checkOut)}

\* A create whose row starts with paymentStatus true.
NewBookingPaid(profileId, propertyId, checkIn, checkOut, totals) ==
    [profileId |-> profileId, propertyId |-> propertyId,
     checkIn |-> checkIn, checkOut |-> checkOut,
     orderTotal |-> totals.orderTotal, totalNights |-> totals.totalNights,
     paymentStatus |-> TRUE]

\* A create whose data has orderTotal and totalNights exchanged.
NewBookingSwapped(profileId, propertyId, checkIn, checkOut, totals) ==
    [profileId |-> profileId, propertyId |-> propertyId,
     checkIn |-> checkIn, checkOut |-> checkOut,
     orderTotal |-> totals.totalNights, totalNights |-> totals.orderTotal,
     paymentStatus |-> FALSE]

\* db.booking.create({data: {checkIn, checkOut, orderTotal, totalNights,
\* profileId, propertyId}}): paymentStatus takes the schema default, false.
NewBooking(profileId, propertyId, checkIn, checkOut, totals) ==
    [profileId |-> profileId, propertyId |-> propertyId,
     checkIn |-> checkIn, checkOut |-> checkOut,
     orderTotal |-> totals.orderTotal, totalNights |-> totals.totalNights,
     paymentStatus |-> FALSE]

\* The createBookingAction invocations that are about to insert a row.
RunningCreates ==
    {s \in Slots : calls[s].kind = "createBooking" /\ calls[s].pc = "create"}

\* ------------------------------------------------- createBookingAction
\* An ensureExists that never finds the property missing.
PropertyNeverMissing(propertyId) == FALSE

\* findUnique returned null: ensureExists(property, 'Property') throws
\* (lines 613-617).
PropertyMissing(propertyId) == propertyId \notin Properties

\* A date validation that lets checkOut equal checkIn through.
InvalidDateRangeStrict(checkIn, checkOut) == checkOut < checkIn

\* The condition of the date validation (line 608).
InvalidDateRange(checkIn, checkOut) == checkOut <= checkIn

\* handleServerActionError(error): the {message} the action returns from its
\* catch clause.  Of the invocation, the result and the record of what it
\* did are kept until the caller has the result.
handleServerActionError(c, errorMessage) ==
    [IdleCall EXCEPT !.kind = c.kind, !.pc = "done", !.user = c.user,
                     !.bookingId = c.bookingId,
                     !.message = errorMessage, !.created = c.created,
                     !.hadUnpaid = c.hadUnpaid, !.checkedSeq = c.checkedSeq,
                     !.rangeValid = c.rangeValid,
                     !.propertyExists = c.propertyExists]

\* getAuthUser() resolves the caller's profile; then the cleanup deleteMany,
\* the date validation, and db.property.findUnique with ensureExists
\* (lines 594-617).  Only updatePropertyAction writes the Property table and
\* it touches no Booking row, so it commutes with the cleanup: the lookup one
\* await later is taken in the same step as the cleanup.
CreateBookingCleanup(s, user, propertyId, checkIn, checkOut) ==
    /\ FreeSlot(s)
    /\ LET c == [IdleCall EXCEPT !.kind = "createBooking", !.user = user,
                     !.propertyId = propertyId, !.checkIn = checkIn,
                     !.checkOut = checkOut,
                     !.hadUnpaid = UnpaidOf(bookings, user),
                     !.rangeValid = (checkIn < checkOut),
                     !.propertyExists = (propertyId \in Properties)]
       IN  /\ bookings' = DeleteManyUnpaid(bookings, user)
           /\ IF InvalidDateRange(checkIn, checkOut)
              THEN calls' = [calls EXCEPT ![s] = handleServerActionError(c,
                        "Check-out date must be after check-in date")]
              ELSE IF PropertyMissing(propertyId)
              THEN calls' = [calls EXCEPT ![s] =
                        handleServerActionError(c, NotFoundMessage("Property"))]
              ELSE calls' = [calls EXCEPT ![s] =
                        [c EXCEPT !.pc = "findConflict",
                                  !.price = IF propertyId \in Properties
                                            THEN PropertyPrice(propertyId)
                                            ELSE 0]]
    /\ UNCHANGED <<bookingSeq, sessions, load, probe, properties>>

\* db.booking.findFirst for a conflicting paid booking (lines 619-649).  The
\* model follows a call past the query only while fewer than MaxBookings rows
\* have been or are about to be inserted.
CreateBookingFindConflict(s) ==
    /\ calls[s].kind = "createBooking"
    /\ calls[s].pc = "findConflict"
    /\ IF ConflictingBookings(bookings, calls[s].propertyId,
                              calls[s].checkIn, calls[s].checkOut) # {}
       THEN calls' = [calls EXCEPT ![s] =
                handleServerActionError(calls[s], "These dates are already booked")]
       ELSE /\ bookingSeq + Cardinality(RunningCreates) < MaxBookings
            /\ calls' = [calls EXCEPT ![s].pc = "create", ![s].checkedSeq = bookingSeq]
    /\ UNCHANGED <<bookings, bookingSeq, sessions, load, probe, properties>>

\* calculateTotals, db.booking.create, then redirect() inside the try block:
\* the NEXT_REDIRECT it throws is caught at line 669 and returned as a
\* message (lines 651-671).
CreateBookingCreate(s) ==
    /\ calls[s].kind = "createBooking"
    /\ calls[s].pc = "create"
    /\ LET c == calls[s]
           id == bookingSeq + 1
           totals == calculateTotals(c.checkIn, c.checkOut, c.price)
       IN  /\ bookingSeq' = id
           /\ bookings' = [i \in DOMAIN bookings \cup {id} |->
                              IF i = id
                              THEN NewBooking(c.user, c.propertyId, c.checkIn,
                                              c.checkOut, totals)
                              ELSE bookings[i]]
           /\ calls' = [calls EXCEPT ![s] =
                          handleServerActionError([c EXCEPT !.created = id],
                                                  NextRedirectMessage)]
    /\ UNCHANGED <<sessions, load, probe, properties>>

\* The caller receives the handler's result; the slot is free again.
Return(s) ==
    /\ calls[s].pc = "done"
    /\ calls' = [calls EXCEPT ![s] = IdleCall]
    /\ UNCHANGED <<bookings, bookingSeq, sessions, load, probe, properties>>

\* ----------------------------------------------------- POST /api/payment
\* Status codes with ExternalServiceError given the code of PaymentError.
statusCodeMerged(errorClass) ==
    IF errorClass = "NotFoundError" THEN 404
    ELSE IF errorClass \in {"PaymentError", "ExternalServiceError"} THEN 402
    ELSE 500

\* The statusCode of the error classes; handleError gives a plain Error whose
\* message names neither validation nor "not found" the code 500.
statusCode(errorClass) ==
    IF errorClass = "NotFoundError" THEN 404
    ELSE IF errorClass = "PaymentError" THEN 402
    ELSE IF errorClass = "ExternalServiceError" THEN 502
    ELSE 500

\* A paid check that is never true.
AlreadyPaidIgnored(row) == FALSE

\* if (existingBooking.paymentStatus) (line 83)
AlreadyPaid(row) == row.paymentStatus

\* A total recomputed from the property's current price.
ChargedTotalRecomputed(row) ==
    calculateTotals(row.checkIn, row.checkOut, PropertyPrice(row.propertyId)).orderTotal

\* The orderTotal destructured from the booking row (lines 89-95).
ChargedTotal(row) == row.orderTotal

\* A session whose unit_amount is the total in whole units.
NewSessionWholeUnits(bookingId, orderTotal) ==
    [bookingId |-> bookingId, status |-> "open", amount |-> orderTotal]

\* The session stripe.checkout.sessions.create is asked for (lines 107-126):
\* metadata: {bookingId}, unit_amount: orderTotal * 100.
NewSession(bookingId, orderTotal) ==
    [bookingId |-> bookingId, status |-> "open", amount |-> orderTotal * 100]

\* handleApiError(error): the JSON error response and its status code.
handleApiError(c, errorMessage, status) ==
    [IdleCall EXCEPT !.kind = c.kind, !.pc = "done", !.message = errorMessage,
                     !.status = status, !.sessionId = c.sessionId]

\* The POST invocations that are about to ask the provider for a session.
RunningPayments ==
    {s \in Slots : calls[s].kind = "payment" /\ calls[s].pc = "createSession"}

\* Rate limit, origin and bookingId checks, db.booking.findUnique and the
\* paid / order total checks that follow it (lines 26-100).
PaymentFindBooking(s, rateLimited, hasOrigin, bookingId) ==
    /\ FreeSlot(s)
    /\ LET c == [IdleCall EXCEPT !.kind = "payment", !.bookingId = bookingId]
       IN  IF rateLimited
           THEN calls' = [calls EXCEPT ![s] =
                    handleApiError(c, "Too many requests. Please try again later.", 429)]
           ELSE IF ~hasOrigin
           THEN calls' = [calls EXCEPT ![s] =
                    handleApiError(c, "Origin header is required", statusCode("Error"))]
           ELSE IF bookingId = NoId
           THEN calls' = [calls EXCEPT ![s] =
                    handleApiError(c, "Booking ID is required", statusCode("Error"))]
           ELSE IF bookingId \notin DOMAIN bookings
           THEN calls' = [calls EXCEPT ![s] =
                    handleApiError(c, NotFoundMessage("Booking"),
                                   statusCode("NotFoundError"))]
           ELSE IF AlreadyPaid(bookings[bookingId])
           THEN calls' = [calls EXCEPT ![s] =
                    handleApiError(c, "This booking has already been paid",
                                   statusCode("PaymentError"))]
           ELSE IF ChargedTotal(bookings[bookingId]) <= 0
           THEN calls' = [calls EXCEPT ![s] =
                    handleApiError(c, "Invalid order total",
                                   statusCode("PaymentError"))]
           ELSE /\ Cardinality(DOMAIN sessions) + Cardinality(RunningPayments)
                        < load.sessions
                /\ calls' = [calls EXCEPT ![s] =
                        [c EXCEPT !.pc = "createSession",
                                  !.orderTotal = ChargedTotal(bookings[bookingId])]]
    /\ UNCHANGED <<bookings, bookingSeq, sessions, load, probe, properties>>

\* stripe.checkout.sessions.create({metadata: {bookingId}, unit_amount:
\* orderTotal * 100, ...}) and the response (lines 105-148).  The provider
\* either rejects the request, or creates an open session, with or without
\* a client secret in its answer.
PaymentCreateSession(s, providerFails, hasClientSecret) ==
    /\ calls[s].kind = "payment"
    /\ calls[s].pc = "createSession"
    /\ LET c == calls[s]
           sid == Cardinality(DOMAIN sessions) + 1
       IN  IF providerFails
           THEN /\ calls' = [calls EXCEPT ![s] = handleApiError(c,
                        "Stripe error: Failed to create checkout session",
                        statusCode("ExternalServiceError"))]
                /\ UNCHANGED sessions
           ELSE /\ sessions' = [i \in DOMAIN sessions \cup {sid} |->
                        IF i = sid
                        THEN NewSession(c.bookingId, c.orderTotal)
                        ELSE sessions[i]]
                /\ IF hasClientSecret
                   THEN calls' = [calls EXCEPT ![s] =
                            [IdleCall EXCEPT !.kind = c.kind, !.pc = "done",
                                             !.status = 200, !.sessionId = sid]]
                   ELSE calls' = [calls EXCEPT ![s] = handleApiError(
                            [c EXCEPT !.sessionId = sid],
                            "Failed to get payment client secret",
                            statusCode("PaymentError"))]
    /\ UNCHANGED <<bookings, bookingSeq, load, probe, properties>>

\* ------------------------------------------------------ payment provider
\* The customer pays an open checkout session.
CustomerPays(sid) ==
    /\ sid \in DOMAIN sessions
    /\ sessions[sid].status = "open"
    /\ sessions' = [sessions EXCEPT ![sid].status = "complete"]
    /\ UNCHANGED <<bookings, bookingSeq, calls, load, probe, properties>>

\* An open checkout session expires unpaid.
SessionExpires(sid) ==
    /\ sid \in DOMAIN sessions
    /\ sessions[sid].status = "open"
    /\ sessions' = [sessions EXCEPT ![sid].status = "expired"]
    /\ UNCHANGED <<bookings, bookingSeq, calls, load, probe, properties>>

\* ------------------------------------------------------ GET /api/confirm
\* A catch clause that sends the caller to the success view.
ConfirmCatchSuccess(c, thrown) ==
    [IdleCall EXCEPT !.kind = c.kind, !.pc = "done", !.message = thrown,
                     !.redirectTo = "/bookings",
                     !.sessionId = c.sessionId,
                     !.bookingId = c.bookingId, !.wrote = c.wrote,
                     !.sawPaid = c.sawPaid]

\* The catch clause of the handler (lines 99-104): whatever was thrown in
\* the try block, the NEXT_REDIRECT of a redirect() included, the handler
\* ends with redirect('/bookings?error=payment_failed').
ConfirmCatch(c, thrown) ==
    [IdleCall EXCEPT !.kind = c.kind, !.pc = "done", !.message = thrown,
                     !.redirectTo = "/bookings?error=payment_failed",
                     !.sessionId = c.sessionId,
                     !.bookingId = c.bookingId, !.wrote = c.wrote,
                     !.sawPaid = c.sawPaid]

\* A status check that only rejects expired sessions.
SessionNotExpired(session) == session.status # "expired"

\* session.status === 'complete' (line 67)
SessionCompleted(session) == session.status = "complete"

\* An ensureExists that never finds the row missing.
BookingNeverMissing(rows, id) == FALSE

\* findUnique returned null: ensureExists throws NotFoundError (lines 72-76).
BookingMissing(rows, id) == id \notin DOMAIN rows

\* redirect(url) called inside the try block: it throws, the catch clause
\* takes over.
RedirectInTry(c, url) == ConfirmCatch(c, NextRedirectMessage)

\* stripe.checkout.sessions.retrieve(session_id) (line 52): the session the
\* provider holds under the id.
RetrieveSession(sessionId) ==
    IF sessionId = ForeignSessionId
    THEN [bookingId |-> NoId, status |-> "complete", amount |-> 0]
    ELSE sessions[sessionId]

\* A metadata check that never finds the bookingId missing.
MetadataDefaulted(session) == FALSE

\* if (!bookingId) on session.metadata?.bookingId (lines 61-65)
MetadataMissing(session) == session.bookingId = NoId

\* Rate limit, session_id parameter, stripe.checkout.sessions.retrieve and
\* the metadata and status checks that follow it (lines 28-69).
ConfirmRetrieve(s, rateLimited, sessionId, providerFails) ==
    /\ FreeSlot(s)
    /\ LET c == [IdleCall EXCEPT !.kind = "confirm", !.sessionId = sessionId]
       IN  calls' = [calls EXCEPT ![s] =
             IF rateLimited
             THEN RedirectInTry(c, "/bookings?error=rate_limit")
             ELSE IF sessionId = NoId
             THEN ConfirmCatch(c, "PaymentError")
             ELSE IF providerFails
                     \/ sessionId \notin DOMAIN sessions \cup {ForeignSessionId}
             THEN ConfirmCatch(c, "ExternalServiceError")
             ELSE IF MetadataMissing(RetrieveSession(sessionId))
             THEN ConfirmCatch(c, "PaymentError")
             ELSE IF ~SessionCompleted(RetrieveSession(sessionId))
             THEN ConfirmCatch(c, "PaymentError")
             ELSE [c EXCEPT !.pc = "findBooking",
                            !.bookingId = RetrieveSession(sessionId).bookingId]]
    /\ UNCHANGED <<bookings, bookingSeq, sessions, load, probe, properties>>

\* db.booking.findUnique, ensureExists and the already-paid guard
\* (lines 71-83).
ConfirmFindBooking(s) ==
    /\ calls[s].kind = "confirm"
    /\ calls[s].pc = "findBooking"
    /\ LET c == calls[s]
       IN  calls' = [calls EXCEPT ![s] =
             IF BookingMissing(bookings, c.bookingId)
             THEN ConfirmCatch(c, "NotFoundError")
             ELSE IF c.bookingId \in DOMAIN bookings /\ bookings[c.bookingId].paymentStatus
             THEN RedirectInTry([c EXCEPT !.sawPaid = TRUE], "/bookings")
             ELSE [c EXCEPT !.pc = "update"]]
    /\ UNCHANGED <<bookings, bookingSeq, sessions, load, probe, properties>>

\* An update that writes the negation of the flag it finds.
PaidFlagToggled(row) == ~row.paymentStatus

\* The data of db.booking.update (line 89): paymentStatus: true.
PaidFlagWritten(row) == TRUE

\* An update without its where clause: every row takes the data.
UpdateEveryRow(rows, id) ==
    [i \in DOMAIN rows |-> [rows[i] EXCEPT !.paymentStatus = PaidFlagWritten(rows[i])]]

\* The rows after db.booking.update({where: {id}, data: {paymentStatus:
\* true}}) (lines 87-90).
UpdateBooking(rows, id) ==
    [rows EXCEPT ![id].paymentStatus = PaidFlagWritten(rows[id])]

\* db.booking.update({where: {id}, data: {paymentStatus: true}}) and the
\* redirect after it (lines 85-98).  The update throws when storage fails or
\* when no row has the id any more.
ConfirmUpdate(s, storageFails) ==
    /\ calls[s].kind = "confirm"
    /\ calls[s].pc = "update"
    /\ LET c == calls[s]
           id == c.bookingId
       IN  IF storageFails \/ id \notin DOMAIN bookings
           THEN /\ calls' = [calls EXCEPT ![s] = ConfirmCatch(c, "DatabaseError")]
                /\ UNCHANGED bookings
           ELSE /\ bookings' = UpdateBooking(bookings, id)
                /\ calls' = [calls EXCEPT ![s] =
                               RedirectInTry([c EXCEPT !.wrote = TRUE], "/bookings")]
    /\ UNCHANGED <<bookingSeq, sessions, load, probe, properties>>

\* ---------------------------------------------------- deleteBookingAction
\* A where clause without the profileId condition.
BookingOfAnyProfile(rows, id, profileId) == id \in DOMAIN rows

\* A where clause with a paymentStatus: true condition added.
PaidBookingOfProfile(rows, id, profileId) ==
    id \in DOMAIN rows /\ rows[id].profileId = profileId /\ rows[id].paymentStatus

\* where: {id: bookingId, profileId: user.id} (lines 705-708 and 713-716):
\* a row matches.
BookingOfProfile(rows, id, profileId) ==
    id \in DOMAIN rows /\ rows[id].profileId = profileId

\* db.booking.findFirst({where: {id, profileId}}) and ensureExists
\* (lines 698-710).
DeleteBookingFind(s, user, bookingId) ==
    /\ FreeSlot(s)
    /\ LET c == [IdleCall EXCEPT !.kind = "deleteBooking", !.user = user,
                                 !.bookingId = bookingId]
       IN  calls' = [calls EXCEPT ![s] =
             IF BookingOfProfile(bookings, bookingId, user)
             THEN [c EXCEPT !.pc = "delete"]
             ELSE handleServerActionError(c, NotFoundMessage("Booking"))]
    /\ UNCHANGED <<bookings, bookingSeq, sessions, load, probe, properties>>

\* db.booking.delete({where: {id, profileId}}), which throws when the row is
\* gone, and the result (lines 712-723).
DeleteBookingDelete(s) ==
    /\ calls[s].kind = "deleteBooking"
    /\ calls[s].pc = "delete"
    /\ LET c == calls[s]
       IN  IF BookingOfProfile(bookings, c.bookingId, c.user)
           THEN /\ bookings' = [i \in DOMAIN bookings \ {c.bookingId} |-> bookings[i]]
                /\ calls' = [calls EXCEPT ![s] =
                        [IdleCall EXCEPT !.kind = c.kind, !.pc = "done", !.user = c.user,
                                         !.bookingId = c.bookingId,
                                         !.message = "Booking deleted successfully"]]
           ELSE /\ calls' = [calls EXCEPT ![s] =
                        handleServerActionError(c, "Record to delete does not exist.")]
                /\ UNCHANGED bookings
    /\ UNCHANGED <<bookingSeq, sessions, load, probe, properties>>

\* --------------------------------------------------- updatePropertyAction
\* db.property.update({where: {id, profileId}, data: validatedFields}) of
\* updatePropertyAction (src/utils/actions.ts 851-859), for the price field.
UpdatePropertyPrice(propertyId, newPrice) ==
    /\ properties[propertyId].price # newPrice
    /\ properties' = [properties EXCEPT ![propertyId].price = newPrice]
    /\ UNCHANGED <<bookings, bookingSeq, sessions, calls, load, probe>>

\* ------------------------------------------------------- specification
IdleProbe == [e1 |-> 0, e2 |-> 0, c1 |-> 0, c2 |-> 0, applied |-> FALSE,
              conflict |-> FALSE]

Init ==
    /\ bookings = [i \in {} |-> IdleCall]
    /\ bookingSeq = 0
    /\ sessions = [i \in {} |-> IdleCall]
    /\ calls = [s \in Slots |-> IdleCall]
    /\ load \in Loads
    /\ probe = IdleProbe
    /\ properties = [p \in Properties |-> [price |-> PriceLow]]

Next ==
    \/ \E s \in Slots, user \in Profiles, propertyId \in PropertyIds,
          checkIn \in Dates, checkOut \in Dates :
            CreateBookingCleanup(s, user, propertyId, checkIn, checkOut)
    \/ \E s \in Slots : CreateBookingFindConflict(s)
    \/ \E s \in Slots : CreateBookingCreate(s)
    \/ \E s \in Slots, rateLimited \in BOOLEAN, hasOrigin \in BOOLEAN,
          bookingId \in BookingIds \cup {NoId} :
            PaymentFindBooking(s, rateLimited, hasOrigin, bookingId)
    \/ \E s \in Slots, providerFails \in BOOLEAN, hasClientSecret \in BOOLEAN :
            PaymentCreateSession(s, providerFails, hasClientSecret)
    \/ \E sid \in SessionIds : CustomerPays(sid)
    \/ \E sid \in SessionIds : SessionExpires(sid)
    \/ \E s \in Slots, rateLimited \in BOOLEAN,
          sessionId \in SessionIds \cup {NoId, ForeignSessionId},
          providerFails \in BOOLEAN :
            ConfirmRetrieve(s, rateLimited, sessionId, providerFails)
    \/ \E s \in Slots : ConfirmFindBooking(s)
    \/ \E s \in Slots, storageFails \in BOOLEAN : ConfirmUpdate(s, storageFails)
    \/ \E s \in Slots, user \in Profiles, bookingId \in BookingIds :
            DeleteBookingFind(s, user, bookingId)
    \/ \E s \in Slots : DeleteBookingDelete(s)
    \/ \E s \in Slots : Return(s)

Spec == Init /\ [][Next]_vars

\* The date conflict predicate on its own: the inputs are an existing row
\* [e1, e2) and a candidate [c1, c2), both with start before end, as the
\* date validation and the rows it admits guarantee.
InitOverlap ==
    /\ bookings = [i \in {} |-> IdleCall]
    /\ bookingSeq = 0
    /\ sessions = [i \in {} |-> IdleCall]
    /\ calls = [s \in Slots |-> IdleCall]
    /\ load = [slots |-> 1, sessions |-> MaxSessions]
    /\ properties = [p \in Properties |-> [price |-> PriceLow]]
    /\ probe \in {p \in [e1 : ProbeDates, e2 : ProbeDates, c1 : ProbeDates,
                         c2 : ProbeDates, applied : {FALSE}, conflict : {FALSE}] :
                    p.e1 < p.e2 /\ p.c1 < p.c2}

ApplyDateConflict ==
    /\ ~probe.applied
    /\ probe' = [probe EXCEPT !.applied = TRUE,
                    !.conflict = DateConflict(probe.e1, probe.e2, probe.c1, probe.c2)]
    /\ UNCHANGED <<bookings, bookingSeq, sessions, calls, load, properties>>

SpecOverlap == InitOverlap /\ [][ApplyDateConflict]_vars

\* The handlers one at a time, with a Property table whose prices the owner
\* changes at any moment.
InitPrice ==
    /\ bookings = [i \in {} |-> IdleCall]
    /\ bookingSeq = 0
    /\ sessions = [i \in {} |-> IdleCall]
    /\ calls = [s \in Slots |-> IdleCall]
    /\ load = [slots |-> 1, sessions |-> MaxSessions - 1]
    /\ probe = IdleProbe
    /\ properties \in [Properties -> [price : Prices]]

NextPrice ==
    \/ Next
    \/ \E propertyId \in Properties, newPrice \in Prices :
            UpdatePropertyPrice(propertyId, newPrice)

SpecPrice == InitPrice /\ [][NextPrice]_vars

\* ================================================================ claims
PaidRows == {i \in DOMAIN bookings : bookings[i].paymentStatus}

\* Half-open overlap of [a1, a2) and [b1, b2).
Overlap(a1, a2, b1, b2) == a1 < b2 /\ b1 < a2

RowsOverlap(a, b) ==
    /\ bookings[a].propertyId = bookings[b].propertyId
    /\ Overlap(bookings[a].checkIn, bookings[a].checkOut,
               bookings[b].checkIn, bookings[b].checkOut)

\* C1: no two paid bookings of the same property have overlapping half-open
\* [checkIn, checkOut) intervals, in any reachable state.
NoPaidOverlap ==
    \A a \in PaidRows, b \in PaidRows : a # b => ~RowsOverlap(a, b)

\* C2: of two concurrent createBooking calls for the same property and
\* overlapping dates (each ran its availability check before the other
\* inserted), at most one persists a booking.
AtMostOneConcurrentCreate ==
    \A s \in Slots, t \in Slots :
        ( /\ s # t
          /\ calls[s].kind = "createBooking" /\ calls[t].kind = "createBooking"
          /\ calls[s].created # NoId /\ calls[t].created # NoId
          /\ calls[s].checkedSeq < calls[t].created
          /\ calls[t].checkedSeq < calls[s].created
          /\ calls[s].created \in DOMAIN bookings
          /\ calls[t].created \in DOMAIN bookings )
        => ~RowsOverlap(calls[s].created, calls[t].created)

\* C3: a booking's paymentStatus never goes from true back to false.
PaymentStatusNeverReverts ==
    [][\A i \in DOMAIN bookings :
          (bookings[i].paymentStatus /\ i \in DOMAIN bookings')
              => bookings'[i].paymentStatus]_vars

\* A paid booking is still paid after its owner's next createBooking (whose
\* cleanup ran) and after a confirmPayment that found it paid.
PaidSurvivesCleanupAndConfirm ==
    \E i \in PaidRows, s \in Slots, t \in Slots :
        /\ calls[s].kind = "createBooking" /\ calls[s].pc = "done"
        /\ calls[s].user = bookings[i].profileId
        /\ calls[t].kind = "confirm" /\ calls[t].sawPaid /\ calls[t].bookingId = i

\* C4: a confirmPayment call that finds the booking already Confirmed (the
\* second of two calls with the same complete session) issues no write and
\* ends with the success redirect.
RepeatedConfirmSucceeds ==
    \A s \in Slots :
        (calls[s].kind = "confirm" /\ calls[s].pc = "done" /\ calls[s].sawPaid)
            => (~calls[s].wrote /\ calls[s].redirectTo = "/bookings")

\* C5: for concurrent confirmPayment calls that resolve to the same booking,
\* the write of paymentStatus is issued once: no two calls both write it.
SingleFlagWrite ==
    \A s \in Slots, t \in Slots :
        ( /\ s # t
          /\ calls[s].kind = "confirm" /\ calls[t].kind = "confirm"
          /\ calls[s].wrote /\ calls[t].wrote )
        => calls[s].bookingId # calls[t].bookingId

SessionsOf(i, status) ==
    {sid \in DOMAIN sessions :
        sessions[sid].bookingId = i /\ sessions[sid].status = status}

\* C6: for any booking at most one checkout session carrying its id is
\* payable (open), and at most one is ever completed.
OnePayableSessionPerBooking ==
    \A i \in BookingIds :
        /\ Cardinality(SessionsOf(i, "open")) <= 1
        /\ Cardinality(SessionsOf(i, "complete")) <= 1

CreateFailureMessages ==
    {"Check-out date must be after check-in date", "Property not found",
     "These dates are already booked"}

\* C7: when a createBooking call returns, with success or with a date
\* validation, property lookup or availability failure, none of the unpaid
\* bookings its caller had is left.
CleanupBeforeReturn ==
    \A s \in Slots :
        (calls[s].kind = "createBooking" /\ calls[s].pc = "done")
            => calls[s].hadUnpaid \cap DOMAIN bookings = {}

\* A call that failed the date validation after deleting an unpaid booking.
CleanedThenFailedValidation ==
    \E s \in Slots :
        /\ calls[s].kind = "createBooking" /\ calls[s].pc = "done"
        /\ calls[s].hadUnpaid # {}
        /\ calls[s].message = "Check-out date must be after check-in date"

\* C8: a createBooking call that fails returns a failure message and has
\* inserted nothing; the step that ends it removes at most unpaid rows of the
\* caller and changes no other row.
FailedCreatePersistsNothing ==
    [][\A s \in Slots :
          ( /\ calls[s].pc # "done" /\ calls'[s].pc = "done"
            /\ calls'[s].kind = "createBooking"
            /\ calls'[s].message \in CreateFailureMessages )
          => /\ calls'[s].created = NoId
             /\ bookingSeq' = bookingSeq
             /\ DOMAIN bookings' \subseteq DOMAIN bookings
             /\ \A i \in DOMAIN bookings' : bookings'[i] = bookings[i]
             /\ \A i \in DOMAIN bookings \ DOMAIN bookings' :
                    /\ bookings[i].profileId = calls'[s].user
                    /\ ~bookings[i].paymentStatus]_vars

\* A call that failed the availability check after its cleanup deleted an
\* unpaid booking of the caller, who also has a paid booking in the table.
FailedOnConflict ==
    \E s \in Slots :
        /\ calls[s].kind = "createBooking" /\ calls[s].pc = "done"
        /\ calls[s].message = "These dates are already booked"
        /\ calls[s].hadUnpaid # {}
        /\ \E i \in PaidRows : bookings[i].profileId = calls[s].user

\* C9: a createBooking call that persisted a booking ends with the redirect
\* to /checkout?bookingId=<that booking> and returns no failure message.
PersistedCreateRedirects ==
    \A s \in Slots :
        (calls[s].kind = "createBooking" /\ calls[s].pc = "done"
            /\ calls[s].created # NoId)
        => /\ calls[s].redirectTo = "/checkout"
           /\ calls[s].redirectBooking = calls[s].created
           /\ calls[s].message = "none"

\* C10: for e1 < e2 and c1 < c2 the three-clause conflict predicate is true
\* exactly when [e1, e2) and [c1, c2) overlap (e1 < c2 and c1 < e2); touching
\* intervals do not conflict.
ConflictIffOverlap ==
    probe.applied =>
        /\ probe.conflict <=> Overlap(probe.e1, probe.e2, probe.c1, probe.c2)
        /\ (probe.e2 = probe.c1 \/ probe.c2 = probe.e1) => ~probe.conflict

\* The predicate was applied to an existing checkout equal to the candidate
\* check-in and found no conflict.
TouchingIsNoConflict ==
    probe.applied /\ probe.e2 = probe.c1 /\ ~probe.conflict

\* C11: createPaymentSession goes on to the provider only for a booking that
\* exists, is unpaid and has orderTotal > 0; a call that ends at the booking
\* checks ends with an error and no session is created; sessions are created
\* only by calls that passed these checks.
PaymentSessionOnlyForPayable ==
    [][/\ \A s \in Slots :
            (calls[s].pc = "idle" /\ calls'[s].kind = "payment")
            => /\ sessions' = sessions
               /\ calls'[s].pc = "createSession"
                    => /\ calls'[s].bookingId \in DOMAIN bookings
                       /\ ~bookings[calls'[s].bookingId].paymentStatus
                       /\ bookings[calls'[s].bookingId].orderTotal > 0
               /\ calls'[s].pc # "createSession"
                    => /\ calls'[s].pc = "done"
                       /\ calls'[s].status \in {404, 402, 429, 500}
       /\ DOMAIN sessions' # DOMAIN sessions
            => \E s \in Slots : /\ calls[s].kind = "payment"
                                /\ calls[s].pc = "createSession"]_vars

\* A payment request for a paid booking was rejected.
RejectedPaidBooking ==
    \E s \in Slots :
        /\ calls[s].kind = "payment" /\ calls[s].pc = "done"
        /\ calls[s].message = "This booking has already been paid"
        /\ calls[s].sessionId = NoId
        /\ PaidRows # {}

\* C12: createPaymentSession answers 404 for a booking that is not found, 402
\* for a paid booking or an invalid total, and 502 when the provider fails to
\* create the session; the booking failures never answer 200 or 502.
PaymentFailureKinds ==
    [][\A s \in Slots :
          /\ ( /\ calls[s].kind = "payment" /\ calls[s].pc = "createSession"
               /\ sessions' = sessions /\ calls'[s].pc = "done" )
             => calls'[s].status = 502
          /\ ( /\ calls[s].pc = "idle" /\ calls'[s].kind = "payment"
               /\ calls'[s].pc = "done" )
             => /\ calls'[s].status \notin {200, 502}
                /\ calls'[s].message = "Booking not found"
                     => calls'[s].status = 404
                /\ calls'[s].message \in {"This booking has already been paid",
                                          "Invalid order total"}
                     => calls'[s].status = 402]_vars

\* The provider failed to create a session for a payable booking.
ProviderFailureSurfaced ==
    \E s \in Slots :
        /\ calls[s].kind = "payment" /\ calls[s].pc = "done"
        /\ calls[s].status = 502
        /\ \E i \in DOMAIN bookings : ~bookings[i].paymentStatus

\* C13: every checkout session carries the id of a booking that was created,
\* its amount is that booking's stored orderTotal times 100, and the booking
\* id a confirmPayment call resolves is the one its session carries.
SessionCarriesBooking ==
    /\ \A sid \in DOMAIN sessions :
            /\ sessions[sid].bookingId \in 1 .. bookingSeq
            /\ sessions[sid].bookingId \in DOMAIN bookings
                 => sessions[sid].amount
                        = bookings[sessions[sid].bookingId].orderTotal * 100
    /\ \A s \in Slots :
            (calls[s].kind = "confirm" /\ calls[s].pc \in {"findBooking", "update"})
            => calls[s].bookingId = sessions[calls[s].sessionId].bookingId

\* A confirmPayment call resolved the second booking, a two-night stay, from
\* a session that charges its total.
SecondBookingResolved ==
    \E s \in Slots :
        /\ calls[s].kind = "confirm" /\ calls[s].pc = "update"
        /\ calls[s].bookingId \in DOMAIN bookings
        /\ calls[s].bookingId > 1
        /\ bookings[calls[s].bookingId].totalNights > 1
        /\ sessions[calls[s].sessionId].amount
                = bookings[calls[s].bookingId].orderTotal * 100

\* C14: a confirmPayment call for a session that is not complete changes no
\* booking, issues no write and ends with the failure redirect.
IncompleteSessionNotConfirmed ==
    [][\A s \in Slots :
          ( /\ calls[s].pc = "idle" /\ calls'[s].kind = "confirm"
            /\ calls'[s].sessionId \in DOMAIN sessions
            /\ sessions[calls'[s].sessionId].status # "complete" )
          => /\ bookings' = bookings
             /\ calls'[s].pc = "done"
             /\ ~calls'[s].wrote
             /\ calls'[s].redirectTo = "/bookings?error=payment_failed"]_vars

\* A confirmPayment call for an expired session ended; the session's booking
\* is still Pending.
ExpiredSessionRefused ==
    \E s \in Slots :
        /\ calls[s].kind = "confirm" /\ calls[s].pc = "done"
        /\ calls[s].sessionId \in DOMAIN sessions
        /\ sessions[calls[s].sessionId].status = "expired"
        /\ sessions[calls[s].sessionId].bookingId \in DOMAIN bookings
        /\ ~bookings[sessions[calls[s].sessionId].bookingId].paymentStatus

\* C15: a confirmPayment call ends with the success redirect exactly when it
\* found the booking Confirmed or its write succeeded, and with the failure
\* redirect otherwise.
ConfirmOutcomeMatchesBooking ==
    \A s \in Slots :
        (calls[s].kind = "confirm" /\ calls[s].pc = "done")
        => /\ calls[s].redirectTo \in {"/bookings", "/bookings?error=payment_failed"}
           /\ calls[s].redirectTo = "/bookings"
                <=> (calls[s].sawPaid \/ calls[s].wrote)

\* C16: when the write of paymentStatus fails, confirmPayment changes no
\* booking, raises DatabaseError and ends with the failure redirect.
FailedWriteReported ==
    [][\A s \in Slots :
          ( /\ calls[s].kind = "confirm" /\ calls[s].pc = "update"
            /\ calls'[s].pc = "done" /\ ~calls'[s].wrote )
          => /\ bookings' = bookings
             /\ calls'[s].message = "DatabaseError"
             /\ calls'[s].message \notin {"ExternalServiceError", "PaymentError",
                                          "NotFoundError", NextRedirectMessage}
             /\ calls'[s].redirectTo = "/bookings?error=payment_failed"]_vars

\* The write failed for a complete session: the booking is still Pending.
PaidButNotSaved ==
    \E s \in Slots :
        /\ calls[s].kind = "confirm" /\ calls[s].pc = "done"
        /\ calls[s].message = "DatabaseError"
        /\ sessions[calls[s].sessionId].status = "complete"
        /\ calls[s].bookingId \in DOMAIN bookings
        /\ ~bookings[calls[s].bookingId].paymentStatus

\* C17: a confirmPayment call whose session names a booking that is not in
\* storage ends with NotFoundError and the failure redirect; it writes
\* nothing and creates no booking.
MissingBookingIsNotFound ==
    [][\A s \in Slots :
          ( /\ calls[s].kind = "confirm" /\ calls[s].pc = "findBooking"
            /\ calls[s].bookingId \notin DOMAIN bookings
            /\ calls'[s] # calls[s] )
          => /\ bookings' = bookings
             /\ bookingSeq' = bookingSeq
             /\ calls'[s].pc = "done"
             /\ ~calls'[s].wrote
             /\ calls'[s].message = "NotFoundError"
             /\ calls'[s].redirectTo = "/bookings?error=payment_failed"]_vars

\* A complete session named a booking that had been deleted.
ConfirmedDeletedBooking ==
    \E s \in Slots :
        /\ calls[s].kind = "confirm" /\ calls[s].pc = "done"
        /\ calls[s].message = "NotFoundError"
        /\ sessions[calls[s].sessionId].status = "complete"
        /\ calls[s].bookingId \notin DOMAIN bookings

\* C18: no step changes the orderTotal or totalNights of a booking that
\* stays in storage, whatever happens to the property's price; a payment
\* call takes the total it charges from the stored row, and a new session
\* charges the stored orderTotal of its booking.
PriceLock ==
    [][/\ \A i \in DOMAIN bookings \cap DOMAIN bookings' :
            /\ bookings'[i].orderTotal = bookings[i].orderTotal
            /\ bookings'[i].totalNights = bookings[i].totalNights
       /\ \A s \in Slots :
            ( /\ calls[s].pc = "idle" /\ calls'[s].kind = "payment"
              /\ calls'[s].pc = "createSession" )
            => calls'[s].orderTotal = bookings[calls'[s].bookingId].orderTotal
       /\ \A sid \in DOMAIN sessions' \ DOMAIN sessions :
            sessions'[sid].bookingId \in DOMAIN bookings
            => sessions'[sid].amount
                   = bookings[sessions'[sid].bookingId].orderTotal * 100]_vars

\* A session charges the stored total of a booking whose property now has
\* another price than the one the total was computed from.
StoredTotalCharged ==
    \E sid \in DOMAIN sessions :
        LET b == sessions[sid].bookingId
        IN  /\ b \in DOMAIN bookings
            /\ sessions[sid].amount = bookings[b].orderTotal * 100
            /\ calculateTotals(bookings[b].checkIn, bookings[b].checkOut,
                               PropertyPrice(bookings[b].propertyId)).orderTotal
                    # bookings[b].orderTotal

\* C19: a booking createBooking inserts for a price > 0 has totalNights equal
\* to checkOut - checkIn, which is positive, and orderTotal of at least
\* totalNights times the price the call read.
TotalsConsistent ==
    [][\A i \in DOMAIN bookings' \ DOMAIN bookings :
          \E s \in Slots :
              /\ calls[s].kind = "createBooking" /\ calls[s].pc = "create"
              /\ calls'[s].created = i
              /\ bookings'[i].totalNights = calls[s].checkOut - calls[s].checkIn
              /\ bookings'[i].totalNights > 0
              /\ calls[s].price > 0
                   => bookings'[i].orderTotal
                          >= bookings'[i].totalNights * calls[s].price]_vars

\* A stay of more than one night was booked at the higher price.
LongStayAtHighPrice ==
    \E i \in DOMAIN bookings :
        /\ bookings[i].totalNights > 1
        /\ bookings[i].orderTotal >= bookings[i].totalNights * PriceHigh

\* C20: every booking in storage has checkOut after checkIn.
CheckOutAfterCheckIn ==
    \A i \in DOMAIN bookings : bookings[i].checkOut > bookings[i].checkIn

\* A booking is in storage and a later call was refused for its date range.
EqualDatesRefused ==
    \E s \in Slots, i \in DOMAIN bookings :
        /\ calls[s].kind = "createBooking" /\ calls[s].pc = "done"
        /\ calls[s].message = "Check-out date must be after check-in date"
        /\ calls[s].created = NoId
        /\ bookings[i].profileId # calls[s].user

\* C21: a booking enters storage with paymentStatus false, and paymentStatus
\* goes from false to true only in the update step of a confirmPayment call
\* whose session is complete and carries the booking's id.
OnlyConfirmSetsPaid ==
    [][/\ \A i \in DOMAIN bookings' \ DOMAIN bookings : ~bookings'[i].paymentStatus
       /\ \A i \in DOMAIN bookings \cap DOMAIN bookings' :
            (~bookings[i].paymentStatus /\ bookings'[i].paymentStatus)
            => \E s \in Slots :
                  /\ calls[s].kind = "confirm" /\ calls[s].pc = "update"
                  /\ calls[s].bookingId = i
                  /\ calls'[s].wrote
                  /\ sessions[calls[s].sessionId].status = "complete"
                  /\ sessions[calls[s].sessionId].bookingId = i]_vars

\* One booking was confirmed by a call that wrote it, while another booking
\* with a checkout session of its own is still Pending.
ConfirmedByCompleteSession ==
    \E s \in Slots, j \in DOMAIN bookings, sid \in DOMAIN sessions :
        /\ calls[s].kind = "confirm" /\ calls[s].pc = "done" /\ calls[s].wrote
        /\ calls[s].bookingId \in PaidRows
        /\ j # calls[s].bookingId
        /\ ~bookings[j].paymentStatus
        /\ sessions[sid].bookingId = j

\* C22: deleteBooking for a booking id that does not exist or that another
\* profile owns fails with not-found and changes no booking; the delete step
\* removes only the booking named, and only if the caller owns it.
DeleteOnlyOwnBooking ==
    [][\A s \in Slots :
          /\ (calls[s].pc = "idle" /\ calls'[s].kind = "deleteBooking")
             => /\ bookings' = bookings
                /\ ( \/ calls'[s].bookingId \notin DOMAIN bookings
                     \/ bookings[calls'[s].bookingId].profileId # calls'[s].user )
                   => /\ calls'[s].pc = "done"
                      /\ calls'[s].message = "Booking not found"
          /\ ( /\ calls[s].kind = "deleteBooking" /\ calls[s].pc = "delete"
               /\ calls'[s] # calls[s] )
             => /\ \A i \in DOMAIN bookings \ DOMAIN bookings' :
                      /\ i = calls[s].bookingId
                      /\ bookings[i].profileId = calls[s].user
                /\ \A i \in DOMAIN bookings' :
                      i \in DOMAIN bookings /\ bookings'[i] = bookings[i]]_vars

\* A profile asked to delete a booking of another profile; it is still there.
ForeignBookingKept ==
    \E s \in Slots :
        /\ calls[s].kind = "deleteBooking" /\ calls[s].pc = "done"
        /\ calls[s].message = "Booking not found"
        /\ calls[s].bookingId \in DOMAIN bookings
        /\ bookings[calls[s].bookingId].profileId # calls[s].user

\* C23: a createBooking call reaches the availability query and the insert
\* only with a valid date range and an existing property; with an invalid
\* range it ends with the date validation message whether or not the
\* property exists, and with a valid range and a missing property it ends
\* with not-found; neither has inserted a booking.
CreateStepsInOrder ==
    \A s \in Slots :
        calls[s].kind = "createBooking"
        => /\ calls[s].pc \in {"findConflict", "create"}
                => (calls[s].rangeValid /\ calls[s].propertyExists)
           /\ calls[s].pc = "done"
                => /\ ~calls[s].rangeValid
                        => /\ calls[s].message
                                = "Check-out date must be after check-in date"
                           /\ calls[s].created = NoId
                   /\ (calls[s].rangeValid /\ ~calls[s].propertyExists)
                        => /\ calls[s].message = "Property not found"
                           /\ calls[s].created = NoId
                   /\ ( \/ calls[s].message = "These dates are already booked"
                        \/ calls[s].created # NoId )
                        => (calls[s].rangeValid /\ calls[s].propertyExists)

\* A call with an empty or inverted range for a property that does not
\* exist ended with the date validation message.
InvalidRangeBeatsMissingProperty ==
    \E s \in Slots :
        /\ calls[s].kind = "createBooking" /\ calls[s].pc = "done"
        /\ ~calls[s].rangeValid /\ ~calls[s].propertyExists
        /\ calls[s].message = "Check-out date must be after check-in date"

\* C24: confirmPayment reads and writes bookings only after its upstream
\* checks: its first step changes no booking and goes on to the booking
\* lookup only with a session id that the provider knows, whose session
\* carries a booking id and is complete; without a session id it ends with
\* the payment error, never with a provider error; bookings change only in
\* its update step.
ConfirmReadsAfterChecks ==
    [][\A s \in Slots :
          /\ (calls[s].pc = "idle" /\ calls'[s].kind = "confirm")
             => /\ bookings' = bookings
                /\ calls'[s].pc \in {"findBooking", "done"}
                /\ calls'[s].pc = "findBooking"
                     => /\ calls'[s].sessionId \in DOMAIN sessions
                        /\ sessions[calls'[s].sessionId].status = "complete"
                        /\ sessions[calls'[s].sessionId].bookingId # NoId
                        /\ calls'[s].bookingId
                               = sessions[calls'[s].sessionId].bookingId
                /\ calls'[s].pc = "done"
                     => (~calls'[s].wrote /\ ~calls'[s].sawPaid)
                /\ calls'[s].sessionId = NoId
                     => calls'[s].message \in {"PaymentError", NextRedirectMessage}
          /\ ( /\ calls'[s].kind = "confirm" /\ calls'[s] # calls[s]
               /\ bookings' # bookings )
             => calls[s].pc = "update"]_vars

\* A confirm call for a complete session without a booking id in its
\* metadata ended with the payment error while a Pending booking exists.
ForeignSessionRefused ==
    \E s \in Slots :
        /\ calls[s].kind = "confirm" /\ calls[s].pc = "done"
        /\ calls[s].sessionId = ForeignSessionId
        /\ calls[s].message = "PaymentError"
        /\ ~calls[s].wrote /\ ~calls[s].sawPaid
        /\ \E i \in DOMAIN bookings : ~bookings[i].paymentStatus

\* C25: the availability query of createBooking reports a conflict exactly
\* when a Confirmed booking of the same property overlaps the requested
\* range; Pending bookings never count.
OnlyConfirmedBookingsConflict ==
    [][\A s \in Slots :
          ( /\ calls[s].kind = "createBooking" /\ calls[s].pc = "findConflict"
            /\ calls'[s] # calls[s] )
          => ( calls'[s].message = "These dates are already booked"
               <=> \E i \in DOMAIN bookings :
                      /\ bookings[i].paymentStatus
                      /\ bookings[i].propertyId = calls[s].propertyId
                      /\ Overlap(bookings[i].checkIn, bookings[i].checkOut,
                                 calls[s].checkIn, calls[s].checkOut) )]_vars

\* A call passed the availability query although a Pending booking of
\* another profile overlaps its range on the same property.
PendingOverlapIgnored ==
    \E s \in Slots, i \in DOMAIN bookings :
        /\ calls[s].kind = "createBooking" /\ calls[s].pc = "create"
        /\ ~bookings[i].paymentStatus
        /\ bookings[i].profileId # calls[s].user
        /\ bookings[i].propertyId = calls[s].propertyId
        /\ Overlap(bookings[i].checkIn, bookings[i].checkOut,
                   calls[s].checkIn, calls[s].checkOut)

\* C26: the cleanup step of createBooking deletes exactly the rows whose
\* profile is the caller and whose paymentStatus is false; every other row
\* stays as it was.
CleanupDeletesOwnUnpaid ==
    [][\A s \in Slots :
          (calls[s].pc = "idle" /\ calls'[s].kind = "createBooking")
          => /\ DOMAIN bookings'
                  = DOMAIN bookings \
                      {i \in DOMAIN bookings :
                          /\ bookings[i].profileId = calls'[s].user
                          /\ ~bookings[i].paymentStatus}
             /\ \A i \in DOMAIN bookings' : bookings'[i] = bookings[i]]_vars

\* A cleanup removed the caller's Pending booking and left the Pending
\* booking of another profile in place.
CleanupSparedOthers ==
    \E s \in Slots, i \in DOMAIN bookings :
        /\ calls[s].kind = "createBooking"
        /\ calls[s].hadUnpaid # {}
        /\ calls[s].hadUnpaid \cap DOMAIN bookings = {}
        /\ bookings[i].profileId # calls[s].user
        /\ ~bookings[i].paymentStatus

\* C27 as stated: a booking that deleteBooking removes is a paid one.
DeleteOnlyWhenPaid ==
    [][\A s \in Slots :
          ( /\ calls[s].kind = "deleteBooking" /\ calls[s].pc = "delete"
            /\ calls'[s] # calls[s] )
          => \A i \in DOMAIN bookings \ DOMAIN bookings' :
                bookings[i].paymentStatus]_vars

\* C27: deleteBooking goes on to the delete whenever the caller owns the
\* booking, and the delete step removes the booking and reports success
\* whenever the caller still owns it, whether it is Confirmed or Pending.
OwnerDeletesAnyBooking ==
    [][\A s \in Slots :
          /\ ( /\ calls[s].pc = "idle" /\ calls'[s].kind = "deleteBooking"
               /\ calls'[s].bookingId \in DOMAIN bookings
               /\ bookings[calls'[s].bookingId].profileId = calls'[s].user )
             => calls'[s].pc = "delete"
          /\ ( /\ calls[s].kind = "deleteBooking" /\ calls[s].pc = "delete"
               /\ calls'[s] # calls[s]
               /\ calls[s].bookingId \in DOMAIN bookings
               /\ bookings[calls[s].bookingId].profileId = calls[s].user )
             => /\ calls[s].bookingId \notin DOMAIN bookings'
                /\ calls'[s].message = "Booking deleted successfully"]_vars

\* The owner deleted a booking that was never paid for: no checkout session
\* names it, and it is gone.
PendingBookingDeleted ==
    \E s \in Slots :
        /\ calls[s].kind = "deleteBooking" /\ calls[s].pc = "done"
        /\ calls[s].message = "Booking deleted successfully"
        /\ calls[s].bookingId \notin DOMAIN bookings
        /\ DOMAIN sessions = {}
        /\ PaidRows = {}

\* C28: every profile owns at most one Pending booking.
OnePendingPerProfile ==
    \A u \in Profiles : Cardinality(UnpaidOf(bookings, u)) <= 1

\* C29: the cleanup step of createBooking removes no booking that a
\* complete checkout session names, so a later confirmPayment finds it.
CleanupKeepsPaidForBookings ==
    [][\A s \in Slots :
          (calls[s].pc = "idle" /\ calls'[s].kind = "createBooking")
          => \A i \in DOMAIN bookings \ DOMAIN bookings' :
                ~\E sid \in DOMAIN sessions :
                    /\ sessions[sid].bookingId = i
                    /\ sessions[sid].status = "complete"]_vars

\* C30: a step of a confirmPayment call adds and removes no booking, leaves
\* every booking other than the one its session names as it was, and changes
\* at most paymentStatus of that one.
ConfirmChangesOnlyPaymentStatus ==
    [][\A s \in Slots :
          (calls'[s].kind = "confirm" /\ calls'[s] # calls[s])
          => /\ DOMAIN bookings' = DOMAIN bookings
             /\ \A i \in DOMAIN bookings :
                  /\ i # calls'[s].bookingId => bookings'[i] = bookings[i]
                  /\ [bookings'[i] EXCEPT !.paymentStatus =
                         bookings[i].paymentStatus] = bookings[i]]_vars

\* A confirm call made its booking Confirmed while another booking of the
\* same property is still Pending.
OtherBookingUntouched ==
    \E s \in Slots, j \in DOMAIN bookings :
        /\ calls[s].kind = "confirm" /\ calls[s].pc = "done" /\ calls[s].wrote
        /\ calls[s].bookingId \in PaidRows
        /\ j # calls[s].bookingId
        /\ ~bookings[j].paymentStatus
        /\ bookings[j].propertyId = bookings[calls[s].bookingId].propertyId

=============================================================================
